---- MODULE Spec2Model ----
(***************************************************************************)
(* A model of mozci/mozci.py: the job status aggregator, the trigger       *)
(* objective resolver, the session ledger SCHEDULING_MANAGER, trigger_job, *)
(* trigger_range and the backfill window finder.                           *)
(***************************************************************************)
EXTENDS Integers, Sequences, FiniteSets, TLC

VARIABLES
    sch_mgr,    \* SCHEDULING_MANAGER: revision -> list of builders handed to trigger()
    issued,     \* trigger() calls of the requests made without explicit files:
                \* <<revision, requested builder, triggered builder>> -> count
    ctx,        \* the trigger_range invocation in progress (its arguments, revisions left)
    last,       \* inputs, backend calls and result of the last handler (or loop body) run
    nops,       \* number of top-level invocations made in this session
    backend,    \* jobs the backend holds for one (builder, revision) (closed-loop runs)
    QUERY_SOURCE \* the class of the global QUERY_SOURCE: "BuildApi" or "TreeherderApi"

vars == <<sch_mgr, issued, ctx, last, nops, backend, QUERY_SOURCE>>

(***************************************************************************)
(* QUERY_SOURCE (mozci.py:39-50): BuildApi() when the module is loaded;     *)
(* set_query_source puts a TreeherderApi() there for "treeherder" and a    *)
(* BuildApi() for any other name.                                          *)
(***************************************************************************)
Sources == {"BuildApi", "TreeherderApi"}
DefaultQuerySource == "BuildApi"

set_query_source(query_source) ==
    IF query_source = "treeherder" THEN "TreeherderApi" ELSE "BuildApi"

(***************************************************************************)
(* Bounds of the model.                                                    *)
(***************************************************************************)
MaxJobs == 3          \* longest job list given to _status_summary
MaxRevs == 3          \* longest revision list given to _filter_backfill_revlist
MaxBuildJobs == 3     \* longest list of build jobs given to the resolver

(***************************************************************************)
(* mozci.query_jobs status constants (imported at mozci.py:20-32).         *)
(***************************************************************************)
PENDING == "pending"
RUNNING == "running"
SUCCESS == "success"
WARNING == "warning"
UNKNOWN == "unknown"
COALESCED == "coalesced"
FAILURE == "failure"
EXCEPTION == "exception"
RETRY == "retry"

Statuses == {PENDING, RUNNING, UNKNOWN, SUCCESS, WARNING, FAILURE, EXCEPTION,
             RETRY, COALESCED}

\* Sequences over S of length at most n.
SeqUpTo(S, n) == UNION {[1..k -> S] : k \in 0..n}

\* A job as the query source returns it, for the callers that only look at its
\* status: the status get_job_status reports and the backend request identifier.
StatusJobs(statuses) ==
    [i \in 1..Len(statuses) |-> [status |-> statuses[i], request_id |-> i]]

\* QUERY_SOURCE.get_job_status(job)
get_job_status(job) == job.status

(***************************************************************************)
(* _status_summary (mozci.py:71-94).  The five counters start at 0; every  *)
(* job runs through the five independent `if` tests of lines 83-92; the    *)
(* callers unpack the result as (successful, pending, running, coalesced,  *)
(* failed) (lines 402, 550, 559).                                          *)
(***************************************************************************)
status_summary_init ==
    [successful |-> 0, pending |-> 0, running |-> 0, coalesced |-> 0, failed |-> 0]

status_summary_count_mut(acc, status) ==
    [successful |-> acc.successful + (IF status \in {SUCCESS, WARNING} THEN 1 ELSE 0),
     pending    |-> acc.pending + (IF status = PENDING THEN 1 ELSE 0),
     running    |-> acc.running + (IF status \in {RUNNING, UNKNOWN} THEN 1 ELSE 0),
     coalesced  |-> acc.coalesced + (IF status = COALESCED THEN 1 ELSE 0),
     failed     |-> acc.failed
                    + (IF status \in {FAILURE, WARNING, EXCEPTION, RETRY} THEN 1 ELSE 0)]

status_summary_count(acc, status) ==
    [successful |-> acc.successful + (IF status = SUCCESS THEN 1 ELSE 0),
     pending    |-> acc.pending + (IF status = PENDING THEN 1 ELSE 0),
     running    |-> acc.running + (IF status \in {RUNNING, UNKNOWN} THEN 1 ELSE 0),
     coalesced  |-> acc.coalesced + (IF status = COALESCED THEN 1 ELSE 0),
     failed     |-> acc.failed
                    + (IF status \in {FAILURE, WARNING, EXCEPTION, RETRY} THEN 1 ELSE 0)]

RECURSIVE status_summary_loop(_, _)
status_summary_loop(acc, jobs) ==
    IF jobs = <<>> THEN acc
    ELSE status_summary_loop(status_summary_count(acc, get_job_status(Head(jobs))),
                             Tail(jobs))

_status_summary(jobs) ==
    LET s == status_summary_loop(status_summary_init, jobs)
    IN  <<s.successful, s.pending, s.running, s.coalesced, s.failed>>

\* potential_jobs of trigger_range (mozci.py:402-404)
potential_jobs(jobs) ==
    LET s == _status_summary(jobs) IN s[2] + s[3] + s[1] + s[5]

(***************************************************************************)
(* _filter_backfill_revlist (mozci.py:533-569).  jobs_of[i] is the list    *)
(* QUERY_SOURCE.get_matching_jobs returns for revisions[i].  Line 546      *)
(* reads revisions[0] and revisions[-1] before the loop, which raises      *)
(* IndexError on an empty list.                                            *)
(***************************************************************************)
backfill_stops(matching_jobs, only_successful) ==
    LET s == _status_summary(matching_jobs)
    IN  IF ~only_successful
        THEN matching_jobs # <<>> /\ (s[1] # 0 \/ s[2] # 0 \/ s[3] # 0 \/ s[5] # 0)
        ELSE s[1] > 0

RECURSIVE backfill_loop(_, _, _, _, _)
backfill_loop(revisions, jobs_of, i, only_successful, new_revisions_list) ==
    IF i > Len(revisions) THEN new_revisions_list
    ELSE IF backfill_stops(jobs_of[i], only_successful) THEN new_revisions_list
    ELSE backfill_loop(revisions, jobs_of, i + 1, only_successful,
                       Append(new_revisions_list, revisions[i]))

_filter_backfill_revlist(revisions, jobs_of, only_successful) ==
    IF revisions = <<>>
    THEN [raised |-> "IndexError", value |-> <<>>]
    ELSE [raised |-> "no",
          value |-> backfill_loop(revisions, jobs_of, 1, only_successful, <<>>)]

(***************************************************************************)
(* Idle values of the variables a specification does not use.              *)
(***************************************************************************)
NoCtx == [active |-> FALSE]
NoLast == [op |-> "none"]

(***************************************************************************)
(* SpecSummary: _status_summary applied to every job list of bounded       *)
(* length.                                                                 *)
(***************************************************************************)
InitSummary ==
    /\ sch_mgr = <<>>
    /\ issued = <<>>
    /\ ctx = NoCtx
    /\ nops = 0
    /\ backend = <<>>
    /\ QUERY_SOURCE = DefaultQuerySource
    /\ \E statuses \in SeqUpTo(Statuses, MaxJobs) :
          last = [op |-> "_status_summary", done |-> FALSE,
                  jobs |-> StatusJobs(statuses), ret |-> <<>>]

CallStatusSummary ==
    /\ last.op = "_status_summary"
    /\ ~last.done
    /\ last' = [last EXCEPT !.done = TRUE, !.ret = _status_summary(last.jobs)]
    /\ UNCHANGED <<sch_mgr, issued, ctx, nops, backend, QUERY_SOURCE>>

NextSummary == CallStatusSummary

SpecSummary == InitSummary /\ [][NextSummary]_vars

(***************************************************************************)
(* SpecBackfill: _filter_backfill_revlist applied, in both modes, to every *)
(* revision list of bounded length with every assignment of job statuses.  *)
(***************************************************************************)
RevName(i) == i

\* The matching jobs of one revision, by their statuses: none, only a coalesced
\* one, a successful one, one that is neither, and mixes of these.
RevisionJobs ==
    {StatusJobs(st) : st \in {<<>>, <<COALESCED>>, <<SUCCESS>>, <<PENDING>>,
                               <<FAILURE>>, <<COALESCED, SUCCESS>>,
                               <<FAILURE, COALESCED>>}}

InitBackfill ==
    /\ sch_mgr = <<>>
    /\ issued = <<>>
    /\ ctx = NoCtx
    /\ nops = 0
    /\ backend = <<>>
    /\ QUERY_SOURCE = DefaultQuerySource
    /\ \E n \in 0..MaxRevs :
          \E js \in [1..n -> RevisionJobs] :
             last = [op |-> "_filter_backfill_revlist", done |-> FALSE,
                     revisions |-> [i \in 1..n |-> RevName(i)],
                     jobs_of |-> js,
                     any_status |-> [raised |-> "no", value |-> <<>>],
                     successful_only |-> [raised |-> "no", value |-> <<>>]]

CallFilterBackfill ==
    /\ last.op = "_filter_backfill_revlist"
    /\ ~last.done
    /\ last' = [last EXCEPT
                  !.done = TRUE,
                  !.any_status =
                      _filter_backfill_revlist(last.revisions, last.jobs_of, FALSE),
                  !.successful_only =
                      _filter_backfill_revlist(last.revisions, last.jobs_of, TRUE)]
    /\ UNCHANGED <<sch_mgr, issued, ctx, nops, backend, QUERY_SOURCE>>

NextBackfill == CallFilterBackfill

SpecBackfill == InitBackfill /\ [][NextBackfill]_vars

(***************************************************************************)
(* Builders.  allthethings.list_builders() is the catalog;                 *)
(* platforms.determine_upstream_builder maps every builder to its build    *)
(* builder and platforms.is_downstream tells test builders from build      *)
(* builders (imported at mozci.py:17-19).                                  *)
(***************************************************************************)
BuildBuilders == {"B"}
TestBuilders == {"T1", "T2"}
Builders == BuildBuilders \cup TestBuilders
NoBuilder == "None"
\* A name that allthethings.list_builders() does not hold, and the names a
\* caller may ask for.
UnknownBuilders == {"X"}
RequestedBuilders == Builders \cup UnknownBuilders

query_builders == Builders
valid_builder(buildername) == buildername \in query_builders
determine_upstream_builder(buildername) == "B"
is_downstream(buildername) == buildername \in TestBuilders

(***************************************************************************)
(* Revisions.  pushlog.valid_revision accepts the revisions of the         *)
(* repository's pushlog and rejects any other.                             *)
(***************************************************************************)
ValidRevisions == {"r1", "r2"}
InvalidRevisions == {"bad"}
Revisions == ValidRevisions \cup InvalidRevisions
valid_revision_mut(revision) == TRUE

valid_revision(revision) == revision \in ValidRevisions

(***************************************************************************)
(* Files.  Python's None and a list of URLs are kept apart: `if files:`    *)
(* (line 336) is false of both None and [], `files is None` (line 422) is  *)
(* true of None only.  A URL is named by the job that produced it and the  *)
(* property that holds it.                                                 *)
(***************************************************************************)
None == [is_none |-> TRUE, urls |-> <<>>]
Files(urls) == [is_none |-> FALSE, urls |-> urls]
Truthy(files) == ~files.is_none /\ files.urls # <<>>
Url(job, key) == [job |-> job.request_id, key |-> key]
ExplicitFiles == Files(<<[job |-> 0, key |-> "installer"], [job |-> 0, key |-> "tests"]>>)

(***************************************************************************)
(* Build jobs as BuildApi().get_matching_jobs returns them to the          *)
(* resolver.  status_error: get_job_status raises BuildjsonException for   *)
(* the job; properties: the keys of the "properties" of its status data    *)
(* (empty when the key is missing or holds nothing); reachable: what       *)
(* _all_urls_reachable answers for its files.                              *)
(***************************************************************************)
BuildJobShapes ==
    { [status |-> SUCCESS, status_error |-> TRUE, properties |-> {}, reachable |-> FALSE],
      [status |-> PENDING, status_error |-> FALSE, properties |-> {}, reachable |-> FALSE],
      [status |-> RUNNING, status_error |-> FALSE, properties |-> {}, reachable |-> FALSE],
      [status |-> UNKNOWN, status_error |-> FALSE, properties |-> {}, reachable |-> FALSE],
      [status |-> EXCEPTION, status_error |-> FALSE, properties |-> {}, reachable |-> FALSE],
      [status |-> FAILURE, status_error |-> FALSE, properties |-> {"buildername"},
       reachable |-> TRUE],
      [status |-> SUCCESS, status_error |-> FALSE,
       properties |-> {"buildername", "packageUrl", "testsUrl"}, reachable |-> FALSE],
      [status |-> WARNING, status_error |-> FALSE,
       properties |-> {"buildername", "packageUrl", "testsUrl"}, reachable |-> TRUE],
      [status |-> SUCCESS, status_error |-> FALSE,
       properties |-> {"buildername", "packageUrl", "testPackagesUrl", "testsUrl"},
       reachable |-> TRUE] }

BuildJob(shape, id) ==
    [request_id |-> id, status |-> shape.status, status_error |-> shape.status_error,
     properties |-> shape.properties, reachable |-> shape.reachable]

BuildJobs(shapes) == [i \in 1..Len(shapes) |-> BuildJob(shapes[i], i)]

NoJob == 0

(***************************************************************************)
(* _find_files (mozci.py:214-242).  Raises when the status data has no     *)
(* properties (lines 224-227); line 230 reads properties["buildername"].   *)
(***************************************************************************)
_find_files(job) ==
    IF job.properties = {}
    THEN [raised |-> "Exception", files |-> <<>>]
    ELSE IF "buildername" \notin job.properties
    THEN [raised |-> "KeyError", files |-> <<>>]
    ELSE [raised |-> "no",
          files |->
              (IF "packageUrl" \in job.properties
               THEN <<Url(job, "packageUrl")>> ELSE <<>>)
              \o (IF "testPackagesUrl" \in job.properties
                  THEN <<Url(job, "testPackagesUrl")>>
                  ELSE IF "testsUrl" \in job.properties
                  THEN <<Url(job, "testsUrl")>> ELSE <<>>)]

_all_urls_reachable(job) == job.reachable

(***************************************************************************)
(* _unique_build_request (mozci.py:53-69).                                 *)
(***************************************************************************)
InLedger(sch, revision, buildername) ==
    \E i \in 1..Len(sch[revision]) : sch[revision][i] = buildername

_unique_build_request_mut(sch, buildername, revision) == TRUE

_unique_build_request(sch, buildername, revision) ==
    IF is_downstream(buildername) THEN TRUE
    ELSE IF InLedger(sch, revision, buildername) THEN FALSE
    ELSE TRUE

(***************************************************************************)
(* _determine_trigger_objective (mozci.py:97-202).  scan_build_jobs is the *)
(* loop of lines 132-158 from job i on; st holds working_job, running_job, *)
(* failed_job (request ids, NoJob for None) and files.                     *)
(***************************************************************************)
scan_init ==
    [raised |-> "no", working_job |-> NoJob, running_job |-> NoJob,
     failed_job |-> NoJob, files |-> None]

\* query_api.get_job_status(job) raises BuildjsonException (lines 133-135).
status_unavailable_mut(job) == FALSE

status_unavailable(job) == job.status_error

RECURSIVE scan_build_jobs(_, _, _)
scan_build_jobs(build_jobs, i, st) ==
    IF i > Len(build_jobs) THEN st
    ELSE LET job == build_jobs[i] IN
         IF status_unavailable(job)
         THEN scan_build_jobs(build_jobs, i + 1, st)
         ELSE IF job.status \in {RUNNING, PENDING, UNKNOWN}
         THEN scan_build_jobs(build_jobs, i + 1,
                              [st EXCEPT !.running_job = job.request_id])
         ELSE LET found == _find_files(job) IN
              IF found.raised # "no"
              THEN [st EXCEPT !.raised = found.raised]
              ELSE IF found.files # <<>> /\ _all_urls_reachable(job)
              THEN [st EXCEPT !.working_job = job.request_id,
                              !.files = Files(found.files)]
              ELSE scan_build_jobs(build_jobs, i + 1,
                                   [st EXCEPT !.files = None,
                                              !.failed_job = job.request_id])

_determine_trigger_objective(sch, revision, buildername, trigger_build_if_missing, build_jobs) ==
    LET build_buildername == determine_upstream_builder(buildername) IN
    IF build_buildername = buildername
    THEN [raised |-> "no", builder_to_trigger |-> build_buildername, files |-> None]
    ELSE LET st == scan_build_jobs(build_jobs, 1, scan_init) IN
         IF st.raised # "no"
         THEN [raised |-> st.raised, builder_to_trigger |-> NoBuilder, files |-> None]
         ELSE IF st.working_job # NoJob
         THEN [raised |-> "no", builder_to_trigger |-> buildername, files |-> st.files]
         ELSE IF st.running_job # NoJob
         THEN [raised |-> "no", builder_to_trigger |-> NoBuilder, files |-> st.files]
         ELSE IF st.failed_job # NoJob
         THEN [raised |-> "no", builder_to_trigger |-> NoBuilder, files |-> st.files]
         ELSE IF ~trigger_build_if_missing
                 \/ ~_unique_build_request(sch, build_buildername, revision)
         THEN [raised |-> "no", builder_to_trigger |-> NoBuilder, files |-> st.files]
         ELSE [raised |-> "no", builder_to_trigger |-> build_buildername,
               files |-> st.files]

EmptyLedger == [r \in Revisions |-> <<>>]

(***************************************************************************)
(* SpecResolve: _determine_trigger_objective applied to a test builder's   *)
(* request, for every list of build jobs of bounded length, with and       *)
(* without the build builder in the ledger.                                *)
(***************************************************************************)
InitResolve ==
    /\ issued = <<>>
    /\ ctx = NoCtx
    /\ nops = 0
    /\ backend = <<>>
    /\ QUERY_SOURCE = DefaultQuerySource
    /\ \E recorded \in BOOLEAN :
          sch_mgr = [EmptyLedger EXCEPT !["r1"] = IF recorded THEN <<"B">> ELSE <<>>]
    /\ \E shapes \in SeqUpTo(BuildJobShapes, MaxBuildJobs) :
       \E tbim \in BOOLEAN :
          last = [op |-> "_determine_trigger_objective", done |-> FALSE,
                  revision |-> "r1", buildername |-> "T1",
                  trigger_build_if_missing |-> tbim,
                  build_jobs |-> BuildJobs(shapes),
                  ret |-> [raised |-> "no", builder_to_trigger |-> NoBuilder,
                           files |-> None]]

CallDetermineTriggerObjective ==
    /\ last.op = "_determine_trigger_objective"
    /\ ~last.done
    /\ last' = [last EXCEPT
                  !.done = TRUE,
                  !.ret = _determine_trigger_objective(
                              sch_mgr, last.revision, last.buildername,
                              last.trigger_build_if_missing, last.build_jobs)]
    /\ UNCHANGED <<sch_mgr, issued, ctx, nops, backend, QUERY_SOURCE>>

NextResolve == CallDetermineTriggerObjective

SpecResolve == InitResolve /\ [][NextResolve]_vars

(***************************************************************************)
(* Claims about the pure functions.                                        *)
(***************************************************************************)
CountStatus(jobs, S) == Cardinality({i \in 1..Len(jobs) : jobs[i].status \in S})

SummaryDone == last.op = "_status_summary" /\ last.done

BackfillDone == last.op = "_filter_backfill_revlist" /\ last.done

\* The revisions of the input before the first one that has a matching job with a
\* status in S (all of them when there is none).
PrefixBeforeFirst(revisions, jobs_of, S) ==
    LET hits == {i \in 1..Len(revisions) : CountStatus(jobs_of[i], S) > 0}
    IN  IF hits = {} THEN revisions
        ELSE SubSeq(revisions, 1,
                    (CHOOSE i \in hits : \A j \in hits : i <= j) - 1)

IsPrefix(s, t) == Len(s) <= Len(t) /\ s = SubSeq(t, 1, Len(s))

NonCoalesced == Statuses \ {COALESCED}

\* C9: for every finite revision list, the any-status mode returns exactly the
\* prefix of the input before the first revision that has a matching job with a
\* successful, pending, running or failed status (the whole input when there is
\* none); revisions whose jobs are all coalesced do not stop the scan.
C9_AnyStatusPrefix ==
    BackfillDone =>
        /\ last.any_status.raised = "no"
        /\ last.any_status.value
               = PrefixBeforeFirst(last.revisions, last.jobs_of, NonCoalesced)

\* C9 on the inputs on which the function returns at all.
C9_AnyStatusPrefixWhenReturned ==
    (BackfillDone /\ last.any_status.raised = "no") =>
        last.any_status.value
            = PrefixBeforeFirst(last.revisions, last.jobs_of, NonCoalesced)

\* C10: for every revision list and every assignment of statuses, the
\* successful-only window is the prefix before the first revision with a
\* successful job, the any-status window is a prefix of it, and both are prefixes
\* of the input.
C10_SuccessfulOnlyContainsAnyStatus ==
    BackfillDone =>
        /\ last.successful_only.raised = "no"
        /\ last.any_status.raised = "no"
        /\ last.successful_only.value
               = PrefixBeforeFirst(last.revisions, last.jobs_of, {SUCCESS})
        /\ IsPrefix(last.any_status.value, last.successful_only.value)
        /\ IsPrefix(last.successful_only.value, last.revisions)
        /\ IsPrefix(last.any_status.value, last.revisions)

\* C10 on the inputs on which the function returns at all.
C10_WhenReturned ==
    (BackfillDone /\ last.successful_only.raised = "no"
                  /\ last.any_status.raised = "no") =>
        /\ last.successful_only.value
               = PrefixBeforeFirst(last.revisions, last.jobs_of, {SUCCESS})
        /\ IsPrefix(last.any_status.value, last.successful_only.value)
        /\ IsPrefix(last.successful_only.value, last.revisions)
        /\ IsPrefix(last.any_status.value, last.revisions)

ResolveDone == last.op = "_determine_trigger_objective" /\ last.done

InFlight(job) == ~job.status_error /\ job.status \in {PENDING, RUNNING, UNKNOWN}
Completed(job) == ~job.status_error /\ job.status \notin {PENDING, RUNNING, UNKNOWN}
ArtifactKeys == {"packageUrl", "testPackagesUrl", "testsUrl"}
WorkingBuild(job) ==
    Completed(job) /\ job.properties \cap ArtifactKeys # {} /\ job.reachable

\* The artifact files of a job: the package archive, then the test archive, the
\* "test packages" URL before the legacy "tests" URL.
ArtifactFiles(job) ==
    Files((IF "packageUrl" \in job.properties
           THEN <<[job |-> job.request_id, key |-> "packageUrl"]>> ELSE <<>>)
          \o (IF "testPackagesUrl" \in job.properties
              THEN <<[job |-> job.request_id, key |-> "testPackagesUrl"]>>
              ELSE IF "testsUrl" \in job.properties
              THEN <<[job |-> job.request_id, key |-> "testsUrl"]>> ELSE <<>>))

FirstOf(jobs, P(_)) ==
    jobs[CHOOSE i \in 1..Len(jobs) : P(jobs[i]) /\ \A j \in 1..(i - 1) : ~P(jobs[j])]

Some(jobs, P(_)) == \E i \in 1..Len(jobs) : P(jobs[i])

\* The objective the precedence of the specification gives for the request in
\* `last`: working build, else in-flight, else failed candidate, else the
\* absent-build rule.
PrecedenceObjective ==
    LET jobs == last.build_jobs IN
    IF Some(jobs, WorkingBuild)
    THEN [builder_to_trigger |-> last.buildername,
          files |-> ArtifactFiles(FirstOf(jobs, WorkingBuild))]
    ELSE IF Some(jobs, InFlight) \/ Some(jobs, Completed)
    THEN [builder_to_trigger |-> NoBuilder, files |-> None]
    ELSE IF last.trigger_build_if_missing /\ ~InLedger(sch_mgr, last.revision, "B")
    THEN [builder_to_trigger |-> "B", files |-> None]
    ELSE [builder_to_trigger |-> NoBuilder, files |-> None]

\* C3: for every list of build jobs the resolver decides by precedence: a working
\* build gives the requested builder with that job's files; else an in-flight job
\* gives nothing; else a completed job without usable artifacts gives nothing;
\* only otherwise the absent-build rule applies.  A working build is selected
\* also when an in-flight job is in the list.
C3_ResolverPrecedence ==
    ResolveDone =>
        /\ last.ret.raised = "no"
        /\ last.ret.builder_to_trigger = PrecedenceObjective.builder_to_trigger
        /\ last.ret.files = PrecedenceObjective.files

\* C3 on the job lists on which the resolver returns at all.
C3_PrecedenceWhenReturned ==
    (ResolveDone /\ last.ret.raised = "no") =>
        /\ last.ret.builder_to_trigger = PrecedenceObjective.builder_to_trigger
        /\ last.ret.files = PrecedenceObjective.files

\* A working build that comes first, with an in-flight job after it, is selected.
C3_WorkingBeforeInFlight ==
    /\ ResolveDone
    /\ Len(last.build_jobs) = 2
    /\ WorkingBuild(last.build_jobs[1])
    /\ InFlight(last.build_jobs[2])
    /\ last.ret.builder_to_trigger = last.buildername
    /\ last.ret.files = ArtifactFiles(last.build_jobs[1])

(***************************************************************************)
(* The session: SCHEDULING_MANAGER, trigger, trigger_job and trigger_range *)
(* against a backend whose answers are inputs of each handler.             *)
(***************************************************************************)
MaxOps == 2           \* top-level invocations in one session
MaxTimes == 2         \* largest requested count; also the longest list of matching jobs

ACCEPTED == 202
StatusCodes == {ACCEPTED, 500}
NoResponse == 0

\* Statuses of the matching jobs a session's queries return: one or two of every
\* bucket of _status_summary.
MatchStatuses == {PENDING, UNKNOWN, SUCCESS, COALESCED, RETRY}
MatchViews == {StatusJobs(st) : st \in SeqUpTo(MatchStatuses, MaxTimes)}

\* Build jobs a session's resolver queries return: none, or one job of any shape.
BuildViews == {<<>>} \cup {BuildJobs(<<shape>>) : shape \in BuildJobShapes}

RevisionLists == {<<>>, <<"r1">>, <<"r1", "r2">>, <<"bad", "r2">>}

NoIssued == [k \in ValidRevisions \X Builders \X Builders |-> 0]

TriggerCall(builder, revision, files, dry_run, response) ==
    [kind |-> "trigger", builder |-> builder, revision |-> revision, files |-> files,
     dry_run |-> dry_run, count |-> 1, request_id |-> 0, response |-> response]

RetriggerCall(builder, revision, request_id, count, dry_run, response) ==
    [kind |-> "retrigger", builder |-> builder, revision |-> revision, files |-> None,
     dry_run |-> dry_run, count |-> count, request_id |-> request_id,
     response |-> response]

(***************************************************************************)
(* trigger (mozci.py:451-466): the ledger entry is appended before the     *)
(* backend is called; buildapi.trigger_arbitrary_job answers None in a     *)
(* dry run and a response with a status code otherwise.                    *)
(***************************************************************************)
trigger_ledger_mut(sch, builder, revision) == sch

trigger_ledger(sch, builder, revision) ==
    [sch EXCEPT ![revision] = Append(@, builder)]

trigger_response(dry_run, code) == IF dry_run THEN NoResponse ELSE code

\* The ledger after n calls of trigger for one builder and revision.
RECURSIVE trigger_ledger_times(_, _, _, _)
trigger_ledger_times(sch, n, builder, revision) ==
    IF n = 0 THEN sch
    ELSE trigger_ledger_times(trigger_ledger(sch, builder, revision), n - 1,
                              builder, revision)

trigger_times_mut(sch, n, builder, revision, files, dry_run, codes) ==
    LET m == IF n > 0 /\ ~dry_run /\ codes[1] # ACCEPTED THEN 1 ELSE n
    IN  [sch_mgr |-> trigger_ledger_times(sch, m, builder, revision),
         calls |-> [i \in 1..m |->
                      TriggerCall(builder, revision, files, dry_run,
                                  trigger_response(dry_run, codes[i]))],
         list_of_requests |->
             IF dry_run THEN <<>>
             ELSE [i \in 1..m |-> trigger_response(dry_run, codes[i])]]

\* n calls of trigger in a row (mozci.py:362-372): the ledger, the calls the
\* backend received and the responses that are not None.
trigger_times(sch, n, builder, revision, files, dry_run, codes) ==
    [sch_mgr |-> trigger_ledger_times(sch, n, builder, revision),
     calls |-> [i \in 1..n |->
                  TriggerCall(builder, revision, files, dry_run,
                              trigger_response(dry_run, codes[i]))],
     list_of_requests |->
         IF dry_run THEN <<>> ELSE [i \in 1..n |-> trigger_response(dry_run, codes[i])]]

(***************************************************************************)
(* trigger_job (mozci.py:313-379).                                         *)
(***************************************************************************)
effective_times_mut(builder_to_trigger, buildername, times) == times

effective_times(builder_to_trigger, buildername, times) ==
    IF builder_to_trigger # buildername /\ times # 1 THEN 1 ELSE times

\* The value of a set of one element: Only({e(x) : x \in {v}}) is e(v), with v
\* computed once.
Only(S) == CHOOSE x \in S : TRUE

\* Lines 336-360: the builder to trigger, its files and the count.
trigger_job_objective(sch, revision, buildername, times, files, trigger_build_if_missing, build_jobs) ==
    IF Truthy(files)
    THEN [raised |-> "no", builder_to_trigger |-> buildername, files |-> files,
          times |-> times]
    ELSE Only({[raised |-> o.raised, builder_to_trigger |-> o.builder_to_trigger,
                files |-> o.files,
                times |-> effective_times(o.builder_to_trigger, buildername, times)] :
               o \in {_determine_trigger_objective(sch, revision, buildername,
                                                   trigger_build_if_missing,
                                                   build_jobs)}})

\* The number of trigger calls of lines 363-372: one in a dry run, times
\* otherwise.
trigger_count_mut(dry_run, times) == times

trigger_count(dry_run, times) == IF dry_run THEN 1 ELSE times

\* Lines 362-379, for the objective o.
trigger_job_requests(sch, revision, files, dry_run, codes, o) ==
    LET nothing == [outcome |-> "returned", sch_mgr |-> sch, calls |-> <<>>,
                    list_of_requests |-> <<>>, builder_to_trigger |-> NoBuilder,
                    files |-> files]
    IN
    IF o.raised # "no"
    THEN [nothing EXCEPT !.outcome = o.raised]
    ELSE IF o.builder_to_trigger = NoBuilder
    THEN [nothing EXCEPT !.files = o.files]
    ELSE Only({[outcome |-> "returned", sch_mgr |-> done.sch_mgr,
                calls |-> done.calls, list_of_requests |-> done.list_of_requests,
                builder_to_trigger |-> o.builder_to_trigger, files |-> o.files] :
               done \in {trigger_times(sch, trigger_count(dry_run, o.times),
                                       o.builder_to_trigger, revision, o.files,
                                       dry_run, codes)}})

trigger_job(sch, revision, buildername, times, files, dry_run, trigger_build_if_missing, build_jobs, codes) ==
    LET nothing == [outcome |-> "returned", sch_mgr |-> sch, calls |-> <<>>,
                    list_of_requests |-> <<>>, builder_to_trigger |-> NoBuilder,
                    files |-> files]
    IN
    IF ~valid_revision(revision) THEN nothing
    ELSE IF ~valid_builder(buildername) THEN [nothing EXCEPT !.outcome = "exit"]
    ELSE Only({trigger_job_requests(sch, revision, files, dry_run, codes, o) :
               o \in {trigger_job_objective(sch, revision, buildername, times, files,
                                            trigger_build_if_missing, build_jobs)}})

(***************************************************************************)
(* The body of trigger_range's loop for one revision (mozci.py:390-442).   *)
(* queried: the matching jobs of the revision were asked for (line 401).   *)
(***************************************************************************)
get_buildapi_request_id_mut(matching_jobs) ==
    matching_jobs[Len(matching_jobs)].request_id

get_buildapi_request_id(matching_jobs) == matching_jobs[1].request_id

enough_jobs_mut(matching_jobs, times) == potential_jobs(matching_jobs) > times

enough_jobs(matching_jobs, times) == potential_jobs(matching_jobs) >= times

deficit_mut(matching_jobs, times) == times

\* times - potential_jobs (mozci.py:427, 435)
deficit(matching_jobs, times) == times - potential_jobs(matching_jobs)

trigger_range_body(sch, buildername, rev, times, dry_run, files, trigger_build_if_missing, matching_jobs, build_jobs, codes) ==
    LET idle == [outcome |-> "returned", sch_mgr |-> sch, calls |-> <<>>,
                 list_of_requests |-> <<>>, builder_to_trigger |-> NoBuilder,
                 files |-> files, warned |-> FALSE, queried |-> TRUE]
    IN
    IF ~valid_revision(rev)
    THEN [idle EXCEPT !.outcome = "skipped", !.queried = FALSE]
    ELSE IF enough_jobs(matching_jobs, times) THEN idle
    ELSE IF Len(matching_jobs) > 0 /\ files.is_none
    THEN [idle EXCEPT
            !.calls = << RetriggerCall(buildername, rev,
                                       get_buildapi_request_id(matching_jobs),
                                       deficit(matching_jobs, times), dry_run,
                                       trigger_response(dry_run, codes[1])) >>]
    ELSE Only({[outcome |-> r.outcome, sch_mgr |-> r.sch_mgr, calls |-> r.calls,
                list_of_requests |-> r.list_of_requests,
                builder_to_trigger |-> r.builder_to_trigger, files |-> r.files,
                warned |-> /\ r.list_of_requests # <<>>
                           /\ \E i \in 1..Len(r.list_of_requests) :
                                  r.list_of_requests[i] # ACCEPTED,
                queried |-> TRUE] :
               r \in {trigger_job(sch, rev, buildername,
                                  deficit(matching_jobs, times), files, dry_run,
                                  trigger_build_if_missing, build_jobs, codes)}})

(***************************************************************************)
(* The session's actions.                                                  *)
(***************************************************************************)
RECURSIVE TallyCalls(_, _, _)
TallyCalls(tally, requested, calls) ==
    IF calls = <<>> THEN tally
    ELSE LET c == Head(calls) IN
         TallyCalls(IF c.kind = "trigger"
                    THEN [tally EXCEPT ![<<c.revision, requested, c.builder>>] = @ + 1]
                    ELSE tally,
                    requested, Tail(calls))

\* The tally counts the trigger() calls of the invocations made without explicit
\* files.
Tally(tally, requested, files, calls) ==
    IF Truthy(files) THEN tally ELSE TallyCalls(tally, requested, calls)

\* The resolver queries the build jobs only for a test builder asked for
\* without files, on a valid revision.
ResolverViews(buildername, files, revision, build_views) ==
    IF ~Truthy(files) /\ is_downstream(buildername) /\ valid_revision(revision)
    THEN build_views ELSE {<<>>}

\* The status codes of the backend's responses, call by call: the first n are
\* the ones n backend calls consume.  AnyResponses: every combination;
\* SameResponses: all calls accepted, or all refused.
AnyResponses(n, dry_run) ==
    IF dry_run \/ n = 0 THEN {[i \in 1..MaxTimes |-> ACCEPTED]}
    ELSE {[i \in 1..MaxTimes |-> IF i <= n THEN c[i] ELSE ACCEPTED] :
             c \in [1..n -> StatusCodes]}

SameResponses(n, dry_run) ==
    IF dry_run \/ n = 0 THEN {[i \in 1..MaxTimes |-> ACCEPTED]}
    ELSE {[i \in 1..MaxTimes |-> IF i <= n THEN c ELSE ACCEPTED] : c \in StatusCodes}

Responses(every_response, n, dry_run) ==
    IF every_response THEN AnyResponses(n, dry_run) ELSE SameResponses(n, dry_run)

Init ==
    /\ sch_mgr = EmptyLedger
    /\ issued = NoIssued
    /\ ctx = NoCtx
    /\ last = NoLast
    /\ nops = 0
    /\ backend = <<>>
    /\ QUERY_SOURCE = DefaultQuerySource

TriggerJobOn(builders, revisions, build_views, every_response) ==
    /\ last = NoLast
    /\ ~ctx.active
    /\ nops < MaxOps
    /\ \E revision \in revisions, buildername \in builders, times \in 1..MaxTimes,
          files \in {None, ExplicitFiles}, dry_run \in BOOLEAN,
          trigger_build_if_missing \in BOOLEAN :
       \E build_jobs \in ResolverViews(buildername, files, revision, build_views) :
       \E codes \in Responses(every_response, times, dry_run) :
       \E r \in {trigger_job(sch_mgr, revision, buildername, times, files, dry_run,
                               trigger_build_if_missing, build_jobs, codes)} :
              /\ sch_mgr' = r.sch_mgr
              /\ issued' = Tally(issued, buildername, files, r.calls)
              /\ last' = [op |-> "trigger_job", revision |-> revision,
                          buildername |-> buildername, times |-> times,
                          files |-> files, dry_run |-> dry_run,
                          trigger_build_if_missing |-> trigger_build_if_missing,
                          build_jobs |-> build_jobs, outcome |-> r.outcome,
                          builder_to_trigger |-> r.builder_to_trigger,
                          trigger_files |-> r.files, calls |-> r.calls,
                          list_of_requests |-> r.list_of_requests]
    /\ nops' = nops + 1
    /\ UNCHANGED <<ctx, backend, QUERY_SOURCE>>

TriggerRangeStartOn(builders, revision_lists) ==
    /\ last = NoLast
    /\ ~ctx.active
    /\ nops < MaxOps
    /\ \E revisions \in revision_lists, buildername \in builders,
          times \in 1..MaxTimes, files \in {None, ExplicitFiles},
          dry_run \in BOOLEAN, trigger_build_if_missing \in BOOLEAN :
          ctx' = IF revisions = <<>> THEN NoCtx
                 ELSE [active |-> TRUE, buildername |-> buildername,
                       revisions |-> revisions, times |-> times, dry_run |-> dry_run,
                       files |-> files,
                       trigger_build_if_missing |-> trigger_build_if_missing]
    /\ nops' = nops + 1
    /\ UNCHANGED <<sch_mgr, issued, last, backend, QUERY_SOURCE>>

TriggerRangeStepOn(match_views, build_views, every_response) ==
    /\ last = NoLast
    /\ ctx.active
    /\ LET rev == Head(ctx.revisions) IN
       \E matching_jobs \in (IF valid_revision(rev) THEN match_views ELSE {<<>>}) :
       \E build_jobs \in (IF enough_jobs(matching_jobs, ctx.times)
                             \/ (Len(matching_jobs) > 0 /\ ctx.files.is_none)
                          THEN {<<>>}
                          ELSE ResolverViews(ctx.buildername, ctx.files, rev,
                                             build_views)) :
       \E codes \in Responses(every_response, ctx.times, ctx.dry_run) :
       \E r \in {trigger_range_body(sch_mgr, ctx.buildername, rev, ctx.times,
                                      ctx.dry_run, ctx.files,
                                      ctx.trigger_build_if_missing, matching_jobs,
                                      build_jobs, codes)} :
              /\ sch_mgr' = r.sch_mgr
              /\ issued' = Tally(issued, ctx.buildername, ctx.files, r.calls)
              /\ last' = [op |-> "trigger_range", revision |-> rev,
                          buildername |-> ctx.buildername, times |-> ctx.times,
                          files |-> ctx.files, dry_run |-> ctx.dry_run,
                          trigger_build_if_missing |-> ctx.trigger_build_if_missing,
                          matching_jobs |-> matching_jobs, build_jobs |-> build_jobs,
                          outcome |-> r.outcome,
                          builder_to_trigger |-> r.builder_to_trigger,
                          trigger_files |-> r.files, calls |-> r.calls,
                          list_of_requests |-> r.list_of_requests,
                          warned |-> r.warned, queried |-> r.queried]
              /\ ctx' = IF r.outcome \in {"returned", "skipped"}
                           /\ Tail(ctx.revisions) # <<>>
                        THEN [ctx EXCEPT !.revisions = Tail(@)]
                        ELSE NoCtx
    /\ UNCHANGED <<nops, backend, QUERY_SOURCE>>

\* The handler (or the loop body) has returned: the next one can run.
Return ==
    /\ last # NoLast
    /\ last.op \in {"trigger_job", "trigger_range"}
    /\ last' = NoLast
    /\ UNCHANGED <<sch_mgr, issued, ctx, nops, backend, QUERY_SOURCE>>

(***************************************************************************)
(* Spec: a session of up to MaxOps invocations from the empty ledger.  The *)
(* backend's answers are kept few: no build job, or one that is in flight  *)
(* or working; no matching job, or one that is pending.                    *)
(***************************************************************************)
SessionBuildViews ==
    {<<>>} \cup {BuildJobs(<<shape>>) :
                    shape \in {sh \in BuildJobShapes :
                                  \/ sh.status = PENDING
                                  \/ "testPackagesUrl" \in sh.properties}}
SessionMatchViews == {StatusJobs(st) : st \in {<<>>, <<PENDING>>}}
SessionRevisions == {"r1", "bad"}
SessionRevisionLists == {<<"r1", "r1">>}

TriggerJob == TriggerJobOn(Builders, SessionRevisions, SessionBuildViews, FALSE)
TriggerRangeStart == TriggerRangeStartOn(Builders, SessionRevisionLists)
TriggerRangeStep ==
    TriggerRangeStepOn(SessionMatchViews, SessionBuildViews, FALSE)

Next ==
    \/ TriggerJob
    \/ TriggerRangeStart
    \/ TriggerRangeStep
    \/ Return

Spec == Init /\ [][Next]_vars

(***************************************************************************)
(* SpecHandlers: one invocation of trigger_job or trigger_range, the last  *)
(* of a session, with every answer of the backend, from a ledger that is   *)
(* empty or holds the build builder or a test builder on r1.               *)
(***************************************************************************)
InitHandlers ==
    /\ \E recorded \in {<<>>, <<"B">>, <<"T1">>} :
          sch_mgr = [EmptyLedger EXCEPT !["r1"] = recorded]
    /\ issued = NoIssued
    /\ ctx = NoCtx
    /\ last = NoLast
    /\ nops = MaxOps - 1
    /\ backend = <<>>
    /\ QUERY_SOURCE = DefaultQuerySource

HandlerTriggerJob == TriggerJobOn(RequestedBuilders, Revisions, BuildViews, TRUE)
HandlerTriggerRangeStart == TriggerRangeStartOn(RequestedBuilders, RevisionLists)
HandlerTriggerRangeStep == TriggerRangeStepOn(MatchViews, BuildViews, TRUE)

NextHandlers ==
    \/ HandlerTriggerJob
    \/ HandlerTriggerRangeStart
    \/ HandlerTriggerRangeStep
    \/ Return

SpecHandlers == InitHandlers /\ [][NextHandlers]_vars


(***************************************************************************)
(* SpecLoop: trigger_range invoked again and again for one builder, the    *)
(* revision r1 and one count, against a backend that holds the jobs: every *)
(* accepted trigger or retrigger instance shows up as a pending job in the *)
(* later queries, jobs go on from pending to running to done, and no job   *)
(* that counts becomes coalesced.  backend.initial is the number of        *)
(* non-coalesced jobs at the start; backend.reached tells whether their    *)
(* number has been at least the count at some point.                       *)
(***************************************************************************)
\* The number of trigger_range invocations of one behaviour of SpecLoop.
MaxInvocations == 3

PendingBuild ==
    [status |-> PENDING, status_error |-> FALSE, properties |-> {}, reachable |-> FALSE]
WorkingBuilt ==
    [status |-> SUCCESS, status_error |-> FALSE,
     properties |-> {"buildername", "packageUrl", "testPackagesUrl", "testsUrl"},
     reachable |-> TRUE]
FailedBuilt ==
    [status |-> FAILURE, status_error |-> FALSE, properties |-> {"buildername"},
     reachable |-> TRUE]

NonCoalescedCount(jobs) ==
    Cardinality({i \in 1..Len(jobs) : jobs[i].status # COALESCED})

RECURSIVE NewJobs(_, _, _)
NewJobs(jobs, n, status) ==
    IF n <= 0 THEN jobs
    ELSE NewJobs(Append(jobs, [status |-> status, request_id |-> Len(jobs) + 1]),
                 n - 1, status)

\* The jobs the backend holds after the calls: an accepted retrigger adds count
\* jobs of the requested builder, an accepted trigger one job of its builder.
RECURSIVE BackendAfter(_, _)
BackendAfter(b, calls) ==
    IF calls = <<>> THEN b
    ELSE LET c == Head(calls)
             landed == ~c.dry_run /\ c.response = ACCEPTED
         IN  BackendAfter(
                 IF ~landed THEN b
                 ELSE IF c.kind = "retrigger"
                 THEN [b EXCEPT !.matching = NewJobs(@, c.count, PENDING)]
                 ELSE IF c.builder = b.buildername
                 THEN [b EXCEPT !.matching = NewJobs(@, 1, PENDING)]
                 ELSE [b EXCEPT !.build =
                                   Append(@, BuildJob(PendingBuild, Len(@) + 1))],
                 Tail(calls))

Reached(b) ==
    [b EXCEPT !.reached = @ \/ NonCoalescedCount(b.matching) >= b.times]

InitLoop ==
    /\ QUERY_SOURCE = DefaultQuerySource
    /\ sch_mgr = EmptyLedger
    /\ issued = NoIssued
    /\ ctx = NoCtx
    /\ last = NoLast
    /\ nops = 0
    /\ \E buildername \in Builders, times \in 1..MaxTimes,
          st \in SeqUpTo({PENDING, SUCCESS, COALESCED}, MaxTimes),
          build \in {<<>>, BuildJobs(<<PendingBuild>>), BuildJobs(<<WorkingBuilt>>)} :
          backend = Reached([buildername |-> buildername, times |-> times,
                             initial |-> NonCoalescedCount(StatusJobs(st)),
                             reached |-> FALSE,
                             matching |-> StatusJobs(st),
                             build |-> IF is_downstream(buildername)
                                       THEN build ELSE <<>>])

LoopTriggerRange ==
    /\ last = NoLast
    /\ nops < MaxInvocations
    /\ \E files \in {None, ExplicitFiles}, dry_run \in BOOLEAN,
          trigger_build_if_missing \in BOOLEAN :
       \E codes \in SameResponses(backend.times, dry_run) :
       \E r \in {trigger_range_body(sch_mgr, backend.buildername, "r1",
                                      backend.times, dry_run, files,
                                      trigger_build_if_missing, backend.matching,
                                      backend.build, codes)} :
              /\ sch_mgr' = r.sch_mgr
              /\ backend' = Reached(BackendAfter(backend, r.calls))
              /\ last' = [op |-> "trigger_range", revision |-> "r1",
                          buildername |-> backend.buildername,
                          times |-> backend.times, files |-> files,
                          dry_run |-> dry_run,
                          trigger_build_if_missing |-> trigger_build_if_missing,
                          matching_jobs |-> backend.matching,
                          reached |-> backend.reached,
                          outcome |-> r.outcome, calls |-> r.calls]
    /\ nops' = nops + 1
    /\ UNCHANGED <<issued, ctx, QUERY_SOURCE>>

\* A job of the backend goes on: a pending job of the builder ends, well or to
\* be retried; a pending build ends, with its files or without.
BackendProgress ==
    /\ last = NoLast
    /\ \/ \E i \in 1..Len(backend.matching), status \in {SUCCESS, RETRY} :
             /\ backend.matching[i].status = PENDING
             /\ backend' = [backend EXCEPT !.matching[i].status = status]
       \/ \E i \in 1..Len(backend.build), shape \in {WorkingBuilt, FailedBuilt} :
             /\ backend.build[i].status = PENDING
             /\ backend' = [backend EXCEPT !.build[i] = BuildJob(shape, i)]
    /\ UNCHANGED <<sch_mgr, issued, ctx, last, nops, QUERY_SOURCE>>

NextLoop ==
    \/ LoopTriggerRange
    \/ BackendProgress
    \/ Return

SpecLoop == InitLoop /\ [][NextLoop]_vars


(***************************************************************************)
(* Claims about the session and the handlers.                              *)
(***************************************************************************)
Ran(op) == last # NoLast /\ last.op = op

\* The handler in `last` consulted the resolver for a test builder: no explicit
\* files, a valid revision and, in trigger_range, too few potential jobs and no
\* matching job to retrigger.
ResolvedTestRequest(l) ==
    /\ l.op \in {"trigger_job", "trigger_range"}
    /\ l.buildername \in TestBuilders
    /\ l.files = None
    /\ l.revision \in ValidRevisions
    /\ l.op = "trigger_range" => l.matching_jobs = <<>>

TriggersOf(calls, builder) ==
    Cardinality({i \in 1..Len(calls) :
                    calls[i].kind = "trigger" /\ calls[i].builder = builder})

Retriggers(calls) ==
    Cardinality({i \in 1..Len(calls) : calls[i].kind = "retrigger"})

BuildTriggers(revision) ==
    issued[<<revision, "B", "B">>] + issued[<<revision, "T1", "B">>]
        + issued[<<revision, "T2", "B">>]

UpstreamBuildTriggers(revision) ==
    issued[<<revision, "T1", "B">>] + issued[<<revision, "T2", "B">>]

C2_SecondRequestDeduplicated ==
    [][ (/\ last = NoLast
         /\ last' # NoLast
         /\ ResolvedTestRequest(last')
         /\ last'.trigger_build_if_missing
         /\ last'.build_jobs = <<>>)
        =>
        /\ sch_mgr = EmptyLedger =>
              /\ last'.builder_to_trigger = "B"
              /\ last'.trigger_files = None
              /\ Len(last'.calls) = 1
              /\ last'.calls[1].kind = "trigger"
              /\ last'.calls[1].builder = "B"
              /\ last'.calls[1].revision = last'.revision
              /\ last'.calls[1].files = None
        /\ (\E other \in TestBuilders \ {last'.buildername} :
               issued[<<last'.revision, other, "B">>] > 0) =>
              /\ last'.builder_to_trigger = NoBuilder
              /\ last'.trigger_files = None
              /\ last'.calls = <<>> ]_vars

\* T1's request triggered the build on r1; T2's later request on r1 resolved to
\* nothing.
C2_Witness ==
    /\ Ran("trigger_job")
    /\ last.buildername = "T2" /\ last.revision = "r1"
    /\ last.files = None /\ last.trigger_build_if_missing
    /\ last.build_jobs = <<>>
    /\ issued[<<"r1", "T1", "B">>] = 1
    /\ last.builder_to_trigger = NoBuilder
    /\ last.calls = <<>>

Potential(jobs) == CountStatus(jobs, NonCoalesced)

\* C4: a revision processed by trigger_range on which the potential jobs
\* (pending, running, successful and failed; not coalesced) are at least the
\* requested count gets no trigger call and no retrigger call, and the ledger
\* stays as it was.
C4_EnoughJobsNoBackendCall ==
    [][ (/\ last = NoLast
         /\ last' # NoLast
         /\ last'.op = "trigger_range"
         /\ last'.revision \in ValidRevisions
         /\ Potential(last'.matching_jobs) >= last'.times)
        =>
        /\ last'.calls = <<>>
        /\ sch_mgr' = sch_mgr
        /\ issued' = issued ]_vars

\* Two jobs are asked for where a successful and a pending one exist, beside a
\* build builder already in the ledger.
C4_Witness ==
    /\ Ran("trigger_range")
    /\ last.times = 2
    /\ Len(last.matching_jobs) = 2
    /\ {last.matching_jobs[i].status : i \in 1..2} = {SUCCESS, PENDING}
    /\ last.calls = <<>>
    /\ sch_mgr["r1"] = <<"B">>

\* C5: a revision processed by trigger_range with fewer potential jobs than the
\* count N, at least one matching job and no explicit files gets exactly one
\* retrigger request, for the request identifier of the first matching job, with
\* count N - potential >= 1, and no fresh trigger call.
C5_RetriggerFirstMatchingJob ==
    (/\ Ran("trigger_range")
     /\ last.revision \in ValidRevisions
     /\ Potential(last.matching_jobs) < last.times
     /\ Len(last.matching_jobs) > 0
     /\ last.files = None)
    =>
    /\ Len(last.calls) = 1
    /\ last.calls[1].kind = "retrigger"
    /\ last.calls[1].request_id = last.matching_jobs[1].request_id
    /\ last.calls[1].count = last.times - Potential(last.matching_jobs)
    /\ last.calls[1].count >= 1
    /\ last.calls[1].dry_run = last.dry_run

\* A coalesced job and a job to retry exist, two are asked for: one more is
\* retriggered from the coalesced job's request.
C5_Witness ==
    /\ Ran("trigger_range")
    /\ last.times = 2
    /\ Len(last.matching_jobs) = 2
    /\ last.matching_jobs[1].status = COALESCED
    /\ last.matching_jobs[2].status = RETRY
    /\ Len(last.calls) = 1
    /\ last.calls[1].kind = "retrigger"
    /\ last.calls[1].count = 1
    /\ last.calls[1].request_id = 1

\* The count a request hands to the resolver's caller: trigger_job's times, and
\* in trigger_range the whole count (no matching job exists).
RequestedCount(l) == l.times

\* C6: a request for a test builder with count N > 1 and no explicit files that
\* resolves to the upstream build builder issues exactly one trigger call, for
\* the build builder with no files, and none for the test builder; one that
\* resolves to nothing issues no trigger call.
C6_BuildTriggeredOnce ==
    (/\ last # NoLast
     /\ ResolvedTestRequest(last)
     /\ RequestedCount(last) > 1
     /\ last.outcome = "returned")
    =>
    /\ last.builder_to_trigger = "B" =>
          /\ Len(last.calls) = 1
          /\ last.calls[1].kind = "trigger"
          /\ last.calls[1].builder = "B"
          /\ last.calls[1].files = None
          /\ TriggersOf(last.calls, last.buildername) = 0
    /\ last.builder_to_trigger = NoBuilder => last.calls = <<>>

\* T1 is asked for twice, for real, and the build is triggered once instead.
C6_Witness ==
    /\ Ran("trigger_job")
    /\ last.buildername = "T1" /\ last.times = 2 /\ ~last.dry_run
    /\ last.files = None
    /\ last.builder_to_trigger = "B"
    /\ Len(last.calls) = 1
    /\ last.calls[1].builder = "B"

Max(a, b) == IF a >= b THEN a ELSE b

C11_DryRunOneSimulatedCall ==
    (/\ last # NoLast
     /\ last.op \in {"trigger_job", "trigger_range"}
     /\ last.dry_run)
    =>
    /\ Len(last.calls) <= 1
    /\ \A i \in 1..Len(last.calls) :
          /\ last.calls[i].dry_run
          /\ last.calls[i].response = NoResponse

\* A dry run of trigger_job for the build builder with count 2 made one
\* simulated call.
C11_Witness ==
    /\ Ran("trigger_job")
    /\ last.dry_run /\ last.times = 2 /\ last.buildername = "B"
    /\ last.files = None
    /\ Len(last.calls) = 1
    /\ last.calls[1].dry_run

\* C12: a revision of trigger_range's list that pushlog.valid_revision rejects
\* gets no job query, no trigger and no retrigger and leaves the ledger as it
\* was, and the loop goes on to the revisions after it; trigger_job on such a
\* revision returns an empty list of requests without any backend call.
C12_InvalidRevisionSkipped ==
    [][ (/\ last = NoLast
         /\ last' # NoLast
         /\ last'.op \in {"trigger_job", "trigger_range"}
         /\ last'.revision \in InvalidRevisions)
        =>
        /\ last'.calls = <<>>
        /\ sch_mgr' = sch_mgr
        /\ last'.op = "trigger_range" =>
              /\ ~last'.queried
              /\ ctx' = IF Tail(ctx.revisions) # <<>>
                        THEN [ctx EXCEPT !.revisions = Tail(@)]
                        ELSE NoCtx
        /\ last'.op = "trigger_job" =>
              /\ last'.outcome = "returned"
              /\ last'.list_of_requests = <<>> ]_vars

\* trigger_range skipped the invalid first revision of its list and stands
\* before the valid one after it.
C12_Witness ==
    /\ Ran("trigger_range")
    /\ last.revision = "bad"
    /\ last.outcome = "skipped"
    /\ last.calls = <<>>
    /\ ctx.active
    /\ ctx.revisions = <<"r2">>

\* C13: trigger_job and trigger_range issue no trigger and no retrigger for a
\* requested builder that the catalog does not hold.
C13_UnknownBuilderNoCall ==
    (/\ last # NoLast
     /\ last.op \in {"trigger_job", "trigger_range"}
     /\ ~valid_builder(last.buildername))
    => last.calls = <<>>

\* What holds of C13: for such a builder no trigger call is issued, and
\* trigger_job, once the revision is found valid, exits.
C13_UnknownBuilderNoFreshTrigger ==
    (/\ last # NoLast
     /\ last.op \in {"trigger_job", "trigger_range"}
     /\ ~valid_builder(last.buildername))
    =>
    /\ \A i \in 1..Len(last.calls) : last.calls[i].kind = "retrigger"
    /\ (last.op = "trigger_job" /\ valid_revision(last.revision))
          => last.outcome = "exit"

AllAccepted == [i \in 1..MaxTimes |-> ACCEPTED]

\* What the backend was asked, call by call, the responses left out.
Attempts(calls) ==
    [i \in 1..Len(calls) |->
        [kind |-> calls[i].kind, builder |-> calls[i].builder,
         revision |-> calls[i].revision, files |-> calls[i].files,
         count |-> calls[i].count]]

\* C14: a trigger call answered with a status code other than 202 stops
\* nothing: trigger_job attempts every repetition and trigger_range goes on to
\* every remaining revision, so the attempts made are the ones made when every
\* call is accepted.
C14_RefusedCallStopsNothing ==
    [][ (/\ last = NoLast
         /\ last' # NoLast
         /\ last'.op \in {"trigger_job", "trigger_range"})
        =>
        /\ last'.op = "trigger_job" =>
              Attempts(last'.calls) =
                  Attempts(trigger_job(sch_mgr, last'.revision, last'.buildername,
                                       last'.times, last'.files, last'.dry_run,
                                       last'.trigger_build_if_missing,
                                       last'.build_jobs, AllAccepted).calls)
        /\ last'.op = "trigger_range" =>
              /\ Attempts(last'.calls) =
                     Attempts(trigger_range_body(
                                  sch_mgr, last'.buildername, last'.revision,
                                  last'.times, last'.dry_run, last'.files,
                                  last'.trigger_build_if_missing,
                                  last'.matching_jobs, last'.build_jobs,
                                  AllAccepted).calls)
              /\ (last'.outcome = "returned" /\ Tail(ctx.revisions) # <<>>)
                    => ctx' = [ctx EXCEPT !.revisions = Tail(@)] ]_vars

\* trigger_range's first trigger call on r1 was refused, the second was made
\* all the same, the warning was logged and r2 is next.
C14_Witness ==
    /\ Ran("trigger_range")
    /\ last.revision = "r1"
    /\ Len(last.calls) = 2
    /\ last.calls[1].kind = "trigger" /\ last.calls[1].response # ACCEPTED
    /\ last.calls[2].kind = "trigger" /\ last.calls[2].response = ACCEPTED
    /\ last.warned
    /\ ctx.active /\ ctx.revisions = <<"r2">>

(***************************************************************************)
(* Claims about the resolver's scan.                                       *)
(***************************************************************************)
StatusFetched(job) == ~job.status_error

ResolveFirst(n) ==
    _determine_trigger_objective(sch_mgr, last.revision, last.buildername,
                                 last.trigger_build_if_missing,
                                 SubSeq(last.build_jobs, 1, n))

\* C16: once the scan meets a pending, running or unknown build job it keeps it
\* as the in-flight candidate and examines no later job: the objective is
\* nothing (retry later), as if the list ended there, also when a working build
\* comes after the in-flight job.
C16_InFlightStopsScan ==
    ResolveDone =>
        \A i \in 1..Len(last.build_jobs) :
            (/\ InFlight(last.build_jobs[i])
             /\ ResolveFirst(i).raised = "no"
             /\ ResolveFirst(i).builder_to_trigger = NoBuilder)
            =>
            /\ last.ret.raised = "no"
            /\ last.ret.builder_to_trigger = NoBuilder
            /\ last.ret.files = None

\* What the code does instead: a working build after an in-flight job is
\* selected.
C16_WorkingAfterInFlightSelected ==
    (/\ ResolveDone
     /\ Len(last.build_jobs) = 2
     /\ InFlight(last.build_jobs[1])
     /\ WorkingBuild(last.build_jobs[2]))
    =>
    /\ last.ret.builder_to_trigger = last.buildername
    /\ last.ret.files = ArtifactFiles(last.build_jobs[2])

\* C17: a test builder's request resolves to (upstream build builder, no files)
\* only when the job query returned no build job at all, trigger_build_if_missing
\* is true and the ledger does not hold the build builder on the revision; when
\* any build job exists the build builder is not the objective.
C17_BuildOnlyWhenNoBuildJob ==
    (ResolveDone /\ last.ret.builder_to_trigger = "B") =>
        /\ last.build_jobs = <<>>
        /\ last.trigger_build_if_missing
        /\ ~InLedger(sch_mgr, last.revision, "B")
        /\ last.ret.files = None

\* What holds of C17: the build builder is the objective only when the status of
\* no build job could be fetched (there being none, or every fetch failing).
C17_BuildOnlyWhenNoStatusFetched ==
    (ResolveDone /\ last.ret.builder_to_trigger = "B") =>
        /\ \A i \in 1..Len(last.build_jobs) : ~StatusFetched(last.build_jobs[i])
        /\ last.trigger_build_if_missing
        /\ ~InLedger(sch_mgr, last.revision, "B")
        /\ last.ret.files = None

FailedCandidate(job) == Completed(job) /\ ~WorkingBuild(job)

\* A failed candidate and no working build in the list: the objective is nothing.
BlockedByFailedCandidate ==
    (Some(last.build_jobs, FailedCandidate) /\ ~Some(last.build_jobs, WorkingBuild))
    =>
    /\ last.ret.builder_to_trigger = NoBuilder
    /\ last.ret.files = None

\* C18: a completed build job whose files cannot be extracted (its record may
\* have no properties at all) or cannot be reached is a failed candidate and the
\* scan goes on; the resolver raises nothing, and without a working build the
\* objective is nothing.
C18_ExtractionFailureNotRaised ==
    ResolveDone =>
        /\ last.ret.raised = "no"
        /\ BlockedByFailedCandidate

\* What holds of C18: when the record of every completed job has its properties,
\* with the builder's name among them, nothing is raised, and missing or
\* unreachable files make a failed candidate.
C18_UnreachableFilesNotRaised ==
    (/\ ResolveDone
     /\ \A i \in 1..Len(last.build_jobs) :
           Completed(last.build_jobs[i])
              => "buildername" \in last.build_jobs[i].properties)
    =>
    /\ last.ret.raised = "no"
    /\ BlockedByFailedCandidate

(***************************************************************************)
(* Claims about the calls and the ledger.                                  *)
(***************************************************************************)
\* C19: on a revision that trigger_range processes outside a dry run with fewer
\* potential jobs than the count N, with no matching job or with explicit
\* files, when the objective is the requested builder itself, exactly
\* N - potential trigger calls are issued, all for the requested builder on that
\* revision with the same files, and the list of requests holds the response of
\* each.
C19_DeficitFreshTriggers ==
    (/\ Ran("trigger_range")
     /\ ~last.dry_run
     /\ last.revision \in ValidRevisions
     /\ Potential(last.matching_jobs) < last.times
     /\ (last.matching_jobs = <<>> \/ last.files # None)
     /\ last.outcome = "returned"
     /\ last.builder_to_trigger = last.buildername)
    =>
    /\ Len(last.calls) = last.times - Potential(last.matching_jobs)
    /\ \A i \in 1..Len(last.calls) :
          /\ last.calls[i].kind = "trigger"
          /\ last.calls[i].builder = last.buildername
          /\ last.calls[i].revision = last.revision
          /\ last.calls[i].files = last.trigger_files
          /\ ~last.calls[i].dry_run
    /\ last.files # None => last.trigger_files = last.files
    /\ last.list_of_requests = [i \in 1..Len(last.calls) |-> last.calls[i].response]

\* Two jobs of T1 were asked for with explicit files where one pending job
\* existed: one trigger call for T1 with those files.
C19_Witness ==
    /\ Ran("trigger_range")
    /\ ~last.dry_run
    /\ last.buildername = "T1" /\ last.times = 2
    /\ last.files = ExplicitFiles
    /\ Len(last.matching_jobs) = 1 /\ last.matching_jobs[1].status = PENDING
    /\ Len(last.calls) = 1
    /\ last.calls[1].kind = "trigger"
    /\ last.calls[1].builder = "T1"
    /\ last.calls[1].files = ExplicitFiles
    /\ Len(last.list_of_requests) = 1

SuccessfulBuildTrigger(c) ==
    /\ c.kind = "trigger"
    /\ c.builder \in BuildBuilders
    /\ ~c.dry_run
    /\ c.response = ACCEPTED

AnyTrigger(c) == c.kind = "trigger"

BuildersOfCalls(calls) == [i \in 1..Len(calls) |-> calls[i].builder]

\* The builders of the calls on a revision that satisfy P, in the order of the
\* calls.
BuildersOf(calls, revision, P(_)) ==
    BuildersOfCalls(SelectSeq(calls, LAMBDA c : c.revision = revision /\ P(c)))

\* C20: the ledger holds, for each revision, only the build builders that this
\* engine triggered on it during the run: an entry is added exactly when a
\* trigger of a build builder was issued to the backend and succeeded; requests
\* for test builders, dry runs and refused calls add nothing.
C20_LedgerOnlySuccessfulBuildTriggers ==
    [][ (/\ last = NoLast
         /\ last' # NoLast
         /\ last'.op \in {"trigger_job", "trigger_range"})
        =>
        \A revision \in Revisions :
            sch_mgr'[revision] =
                sch_mgr[revision]
                    \o BuildersOf(last'.calls, revision, SuccessfulBuildTrigger) ]_vars

\* What the code does instead: every call of trigger() adds its builder, of
\* whatever type, dry run or not, accepted or not.
C20_LedgerRecordsEveryTriggerCall ==
    [][ (/\ last = NoLast
         /\ last' # NoLast
         /\ last'.op \in {"trigger_job", "trigger_range"})
        =>
        \A revision \in Revisions :
            sch_mgr'[revision] =
                sch_mgr[revision] \o BuildersOf(last'.calls, revision, AnyTrigger) ]_vars

Refused(c) == c.response # NoResponse /\ c.response # ACCEPTED

\* C21: every response of the backend in a trigger_range batch that bears a
\* status code other than 202, to a trigger request or to a retrigger request,
\* is reported by a warning: no revision on which a backend call failed is
\* left without one.
C21_RefusedCallWarned ==
    (Ran("trigger_range") /\ \E i \in 1..Len(last.calls) : Refused(last.calls[i]))
    => last.warned

\* What holds of C21: a refused trigger request is reported by a warning.
C21_RefusedTriggerWarned ==
    (/\ Ran("trigger_range")
     /\ \E i \in 1..Len(last.calls) :
           last.calls[i].kind = "trigger" /\ Refused(last.calls[i]))
    => last.warned


(***************************************************************************)
(* SpecSource: the query source is switched between requests.  Every query *)
(* a handler makes is recorded with the source that answered it.  The two  *)
(* sources may hold different views of the same revision's jobs.           *)
(***************************************************************************)
QuerySourceNames == {"buildapi", "treeherder"}

\* mozci.py:121: the resolver builds its own BuildApi().
resolver_query_api == "BuildApi"

Query(by, what, source) == [by |-> by, what |-> what, source |-> source]

StatusLookups(by, jobs, source) ==
    [i \in 1..Len(jobs) |-> Query(by, "get_job_status", source)]

\* trigger_range, lines 401-428: the job query, the status summary of the
\* jobs found, and the request id of the first job when it is retriggered.
trigger_range_queries(source, rev, times, files, matching_jobs) ==
    IF ~valid_revision(rev) THEN <<>>
    ELSE <<Query("trigger_range", "get_matching_jobs", source)>>
         \o StatusLookups("_status_summary", matching_jobs, source)
         \o (IF ~enough_jobs(matching_jobs, times)
                /\ Len(matching_jobs) > 0 /\ files.is_none
             THEN <<Query("trigger_range", "get_buildapi_request_id", source)>>
             ELSE <<>>)

\* trigger_range reaches trigger_job (432), which consults the resolver (346)
\* when no files were given; the resolver queries only for a test builder.
resolver_consulted(buildername, rev, times, files, matching_jobs) ==
    /\ valid_revision(rev)
    /\ ~enough_jobs(matching_jobs, times)
    /\ ~(Len(matching_jobs) > 0 /\ files.is_none)
    /\ valid_builder(buildername)
    /\ ~Truthy(files)
    /\ determine_upstream_builder(buildername) # buildername

\* _determine_trigger_objective, lines 121-134 (every job of a view of at
\* most one job is looked up).
resolver_queries(build_jobs) ==
    <<Query("_determine_trigger_objective", "get_matching_jobs", resolver_query_api)>>
    \o StatusLookups("_determine_trigger_objective", build_jobs, resolver_query_api)

\* _filter_backfill_revlist, line 548, and its status summary.
backfill_queries(source, revisions, jobs_of) ==
    IF revisions = <<>> THEN <<>>
    ELSE <<Query("_filter_backfill_revlist", "get_matching_jobs", source)>>
         \o StatusLookups("_status_summary", jobs_of[1], source)

InitSource ==
    /\ sch_mgr = EmptyLedger
    /\ issued = NoIssued
    /\ ctx = NoCtx
    /\ last = NoLast
    /\ nops = 0
    /\ backend = <<>>
    /\ QUERY_SOURCE = DefaultQuerySource

SetQuerySource ==
    /\ last = NoLast
    /\ \E query_source \in QuerySourceNames :
          QUERY_SOURCE' = set_query_source(query_source)
    /\ UNCHANGED <<sch_mgr, issued, ctx, last, nops, backend>>

\* trigger_range(buildername, [rev], times, files=files).
SourceTriggerRange ==
    /\ last = NoLast
    /\ nops < MaxOps
    /\ \E rev \in SessionRevisions, buildername \in Builders, times \in 1..MaxTimes,
          files \in {None, ExplicitFiles} :
       \E matching_of \in [Sources -> SessionMatchViews] :
       \E build_of \in [Sources -> SessionBuildViews] :
       \E matching_jobs \in {IF valid_revision(rev) THEN matching_of[QUERY_SOURCE]
                             ELSE <<>>} :
       \E consulted \in {resolver_consulted(buildername, rev, times, files,
                                            matching_jobs)} :
       \E build_jobs \in {IF consulted THEN build_of[resolver_query_api] ELSE <<>>} :
       \E r \in {trigger_range_body(sch_mgr, buildername, rev, times, FALSE, files,
                                      TRUE, matching_jobs, build_jobs, AllAccepted)} :
              /\ sch_mgr' = r.sch_mgr
              /\ issued' = Tally(issued, buildername, files, r.calls)
              /\ last' = [op |-> "trigger_range", revision |-> rev,
                          buildername |-> buildername, times |-> times,
                          files |-> files, source |-> QUERY_SOURCE,
                          selected_build_jobs |->
                              IF consulted THEN build_of[QUERY_SOURCE] ELSE <<>>,
                          matching_jobs |-> matching_jobs, build_jobs |-> build_jobs,
                          consulted |-> consulted,
                          outcome |-> r.outcome,
                          builder_to_trigger |-> r.builder_to_trigger,
                          calls |-> r.calls,
                          queries |->
                              trigger_range_queries(QUERY_SOURCE, rev, times, files,
                                                    matching_jobs)
                              \o (IF consulted THEN resolver_queries(build_jobs)
                                  ELSE <<>>)]
    /\ nops' = nops + 1
    /\ UNCHANGED <<ctx, backend, QUERY_SOURCE>>

\* _filter_backfill_revlist(buildername, [rev]).
SourceFilterBackfill ==
    /\ last = NoLast
    /\ nops < MaxOps
    /\ \E matching_of \in [Sources -> SessionMatchViews], only_successful \in BOOLEAN :
       \E jobs_of \in {[i \in 1..1 |-> matching_of[QUERY_SOURCE]]} :
          last' = [op |-> "_filter_backfill_revlist", source |-> QUERY_SOURCE,
                   revisions |-> <<RevName(1)>>, jobs_of |-> jobs_of,
                   only_successful |-> only_successful,
                   consulted |-> FALSE,
                   result |-> _filter_backfill_revlist(<<RevName(1)>>, jobs_of,
                                                       only_successful),
                   queries |-> backfill_queries(QUERY_SOURCE, <<RevName(1)>>, jobs_of)]
    /\ nops' = nops + 1
    /\ UNCHANGED <<sch_mgr, issued, ctx, backend, QUERY_SOURCE>>

SourceReturn ==
    /\ last # NoLast
    /\ last' = NoLast
    /\ UNCHANGED <<sch_mgr, issued, ctx, nops, backend, QUERY_SOURCE>>

NextSource ==
    \/ SetQuerySource
    \/ SourceTriggerRange
    \/ SourceFilterBackfill
    \/ SourceReturn

SpecSource == InitSource /\ [][NextSource]_vars

\* C22: after set_query_source, every job query and job-status lookup made
\* while handling a request goes to the selected source, so the resolver
\* judges the revision from the same view of its build jobs as the selected
\* source holds.
C22_AllQueriesToSelectedSource ==
    (last # NoLast /\ "queries" \in DOMAIN last) =>
        /\ last.source = QUERY_SOURCE
        /\ \A i \in 1..Len(last.queries) : last.queries[i].source = QUERY_SOURCE
        /\ last.consulted => last.build_jobs = last.selected_build_jobs

\* C22, the part that holds: the queries of the range scheduler, the backfill
\* window finder and the status aggregator go to the selected source.
C22_SchedulerQueriesToSelectedSource ==
    (last # NoLast /\ "queries" \in DOMAIN last) =>
        \A i \in 1..Len(last.queries) :
            last.queries[i].by # "_determine_trigger_objective"
                => last.queries[i].source = QUERY_SOURCE


\* The returned files against the returned builder, for the request in `last`:
\* files are returned exactly with the requested builder backed by a working
\* build, they are those of the first working build job, and the files value is
\* None otherwise.
FilesOnlyWithWorkingBuild ==
    LET jobs == last.build_jobs
        ret  == last.ret
    IN  /\ Truthy(ret.files) <=> (/\ ret.builder_to_trigger = last.buildername
                                  /\ Some(jobs, WorkingBuild))
        /\ Truthy(ret.files) => ret.files = ArtifactFiles(FirstOf(jobs, WorkingBuild))
        /\ ~Truthy(ret.files) => ret.files = None

\* C23: for every input the resolver returns, and it returns a non-empty list of
\* files if and only if the returned builder is the requested test builder
\* backed by a working build, the files being those of the first working build
\* job in iteration order; in every other outcome the returned files value is
\* None, also when files were extracted from earlier non-working jobs.
C23_FilesOnlyWithWorkingBuild ==
    ResolveDone =>
        /\ last.ret.raised = "no"
        /\ FilesOnlyWithWorkingBuild

\* C23 on the inputs on which the resolver returns at all.
C23_FilesWhenReturned ==
    (ResolveDone /\ last.ret.raised = "no") => FilesOnlyWithWorkingBuild

\* A failed candidate with extracted but unreachable files, then nothing else:
\* the files value returned is None.
C23_ExtractedFilesDropped ==
    /\ ResolveDone
    /\ Len(last.build_jobs) >= 1
    /\ FailedCandidate(last.build_jobs[1])
    /\ last.build_jobs[1].properties \cap ArtifactKeys # {}
    /\ last.ret.raised = "no"
    /\ last.ret.files = None


(***************************************************************************)
(* query_repo_name_from_buildername (mozci.py:253-272).  A builder name is *)
(* given by the set of repository names it contains between delimiters     *)
(* (' %s ', '_%s_', '-%s-'); buildapi.query_repositories(clobber) answers   *)
(* the cached list, or with clobber the refreshed one, in iteration order. *)
(***************************************************************************)
MaxRepos == 2         \* longest list of repositories
Repos == {"try", "mozilla-central", "mozilla-inbound"}
NoRepo == "None"

RepoLists ==
    {l \in SeqUpTo(Repos, MaxRepos) :
        \A i, j \in 1..Len(l) : l[i] = l[j] => i = j}

query_repositories(cached, refreshed, clobber) ==
    IF clobber THEN refreshed ELSE cached

\* Lines 256-261: the first repository of the list that the name contains.
first_repo_in_buildername(repositories, contained) ==
    IF \E i \in 1..Len(repositories) : repositories[i] \in contained
    THEN repositories[CHOOSE i \in 1..Len(repositories) :
                         /\ repositories[i] \in contained
                         /\ \A j \in 1..(i - 1) : repositories[j] \notin contained]
    ELSE NoRepo

RECURSIVE query_repo_name_from_buildername(_, _, _, _)
query_repo_name_from_buildername(contained, cached, refreshed, clobber) ==
    LET repositories == query_repositories(cached, refreshed, clobber)
        ret_val == first_repo_in_buildername(repositories, contained)
    IN  IF ret_val = NoRepo /\ ~clobber
        THEN \* line 266: the value of the inner call is dropped
             LET inner == query_repo_name_from_buildername(contained, cached,
                                                            refreshed, TRUE)
             IN  IF inner.raised # "no" THEN inner
                 ELSE [raised |-> "Exception", value |-> NoRepo]
        ELSE IF ret_val = NoRepo
        THEN [raised |-> "Exception", value |-> NoRepo]
        ELSE [raised |-> "no", value |-> ret_val]

InitRepoName ==
    /\ sch_mgr = <<>>
    /\ issued = <<>>
    /\ ctx = NoCtx
    /\ nops = 0
    /\ backend = <<>>
    /\ QUERY_SOURCE = DefaultQuerySource
    /\ \E contained \in SUBSET Repos, cached \in RepoLists, refreshed \in RepoLists,
          clobber \in BOOLEAN :
          last = [op |-> "query_repo_name_from_buildername", done |-> FALSE,
                  contained |-> contained, cached |-> cached,
                  refreshed |-> refreshed, clobber |-> clobber,
                  ret |-> [raised |-> "no", value |-> NoRepo]]

CallQueryRepoName ==
    /\ last.op = "query_repo_name_from_buildername"
    /\ ~last.done
    /\ last' = [last EXCEPT
                  !.done = TRUE,
                  !.ret = query_repo_name_from_buildername(
                              last.contained, last.cached, last.refreshed,
                              last.clobber)]
    /\ UNCHANGED <<sch_mgr, issued, ctx, nops, backend, QUERY_SOURCE>>

NextRepoName == CallQueryRepoName

SpecRepoName == InitRepoName /\ [][NextRepoName]_vars

RepoNameDone == last.op = "query_repo_name_from_buildername" /\ last.done

InList(list, contained) == \E i \in 1..Len(list) : list[i] \in contained

\* C24: a name not found in the cached list but found in the refreshed list is
\* answered with the repository of the refreshed list instead of an exception;
\* the call raises only when the name contains no repository of any list it
\* looked at.
C24_RefreshedNameReturned ==
    RepoNameDone =>
        /\ (/\ ~last.clobber
            /\ ~InList(last.cached, last.contained)
            /\ InList(last.refreshed, last.contained))
           => /\ last.ret.raised = "no"
              /\ last.ret.value \in last.contained
              /\ \E i \in 1..Len(last.refreshed) : last.refreshed[i] = last.ret.value
        /\ last.ret.raised # "no"
           => /\ ~InList(last.refreshed, last.contained)
              /\ last.clobber \/ ~InList(last.cached, last.contained)

\* What holds of C24: the call returns exactly when the first list it reads
\* (the cached one, the refreshed one with clobber) has a repository the name
\* contains, and then the first such repository in the order of the list.
C24_FirstListDecides ==
    RepoNameDone =>
        LET repositories == IF last.clobber THEN last.refreshed ELSE last.cached IN
        IF InList(repositories, last.contained)
        THEN /\ last.ret.raised = "no"
             /\ last.ret.value \in last.contained
             /\ \E i \in 1..Len(repositories) :
                   /\ repositories[i] = last.ret.value
                   /\ \A j \in 1..(i - 1) : repositories[j] \notin last.contained
        ELSE last.ret.raised = "Exception"

====
